---- MODULE Spec2Model ----
(***************************************************************************)
(* Model of the epoll/self-pipe server skeleton of                         *)
(* src/linux/socket/simple/clientmsg.h (main, addfd, setnonblocking,       *)
(* sig_handler, addsig).                                                   *)
(*                                                                         *)
(* The process is one thread of control (pc) that the kernel may interrupt *)
(* between any two of its steps to run sig_handler.  The kernel objects    *)
(* the code uses are part of the state: the descriptor table (open), the   *)
(* O_NONBLOCK flags (nonblock), the epoll interest list (registry) and     *)
(* ready list (rdlist, edge-triggered), the byte queue of the socketpair   *)
(* (bridge) and the accept queue of the listening socket (backlog).        *)
(*                                                                         *)
(* The source is read as it is meant: the missing semicolons, F_SETTL for  *)
(* F_SETFL and setnonblock for setnonblocking are taken as typos; assert   *)
(* is active (no NDEBUG); the byte the handler sends is the low byte of    *)
(* the signal number (little-endian int).                                  *)
(*                                                                         *)
(* The chat client of src/linux/socket/simple/client.c (main, func,        *)
(* process_cli) is a second program: its variables are the c_ and t_ ones, *)
(* its specification is ClientSpec, and it is idle in Spec as the server   *)
(* is idle in ClientSpec.                                                  *)
(***************************************************************************)
EXTENDS Integers, Sequences, FiniteSets, TLC

(* ------------------------------ bounds --------------------------------- *)

\* capacity of the socketpair's buffer, in one-byte messages
BridgeCap == 2

\* sizeof(signals): the source reads at most 1024 bytes per recv; the model
\* scales the buffer down so that a queue longer than the buffer occurs
SignalsLen == 1

\* connections the environment opens in one run
MaxConn == 1

\* records the client's peer has in flight at one time
MaxRecords == 2

\* chat lines the user types before "bye"
MaxLines == 1

(* ----------------------------- constants ------------------------------- *)

\* op of a CLIENTMSG
EXIT == -1
USER == 1
MSG == 2
OK == 3

\* the values an op field can hold: the four above and anything else
OpValues == {EXIT, 0, USER, MSG, OK}

SIGHUP == 1
SIGINT == 2
SIGTERM == 15
SIGCHLD == 17

\* the order in which main installs the handlers
SigOrder == <<SIGHUP, SIGCHLD, SIGTERM, SIGINT>>

Signals == {SigOrder[k] : k \in 1..Len(SigOrder)}

\* descriptor numbers: 0..2 are the standard streams, the rest are handed
\* out lowest-first in the order main creates them
listenfd == 3
epollfd == 4
pipefd0 == 5
pipefd1 == 6

ConnFds == (pipefd1 + 1)..(pipefd1 + MaxConn)

\* (char*)&msg, 1: the byte the handler writes for a signal number
LowByte(sig) == sig % 256

Min(a, b) == IF a < b THEN a ELSE b

(* ------------------------------- state --------------------------------- *)

VARIABLES
    pc,           \* position of main
    status,       \* how the process ended: "none", "EXIT_SUCCESS", "SIGABRT"
    open,         \* descriptors open in the process
    nonblock,     \* descriptors with O_NONBLOCK set
    bound,        \* the listening socket has an address
    listening,    \* listen() succeeded
    registry,     \* epoll interest list (all entries EPOLLIN|EPOLLET)
    rdlist,       \* epoll ready list: descriptors with an unreported edge
    bridge,       \* bytes written to pipefd[1] and not yet read from pipefd[0]
    backlog,      \* connections waiting in the accept queue
    conndata,     \* accepted connections whose peer has sent data
    handlers,     \* signals whose disposition is sig_handler
    interrupted,  \* a handler ran while main was blocked in epoll_wait
    stop_server,
    ret,
    errno,
    number,
    events,
    i,
    connfd,
    signals,
    bind_failed,  \* history: bind returned -1
    wait_failed,  \* history: epoll_wait returned a hard error
    term_sent,    \* history: a SIGTERM/SIGINT byte was queued in the bridge
    lost,         \* history: a handler's send of SIGTERM/SIGINT failed
    closed_send,  \* history: a handler ran send on a closed pipefd[1]
    framed,       \* history: every handler run so far changed the bridge only
    nreg,         \* history: successful EPOLL_CTL_ADD calls per descriptor
    nclose,       \* history: close() calls per descriptor
    c_pc,         \* client: position of main
    c_op,         \* client: clientMsgSend.op
    c_sock_open,  \* client: sockfd is open
    c_inbox,      \* client: records the peer sent that nobody has read yet
    c_peer_closed,\* client: the peer has closed the connection
    c_sent,       \* client: ops of the records sent so far
    c_cancel,     \* client: pthread_cancel(tid) was called
    t_pc,         \* client: position of the receive thread
    c_first       \* history: what the first recv of main got

kernel == <<open, nonblock, bound, listening, registry, rdlist, bridge, backlog, conndata>>
locals == <<stop_server, ret, errno, number, events, i, connfd, signals>>
history == <<bind_failed, wait_failed, term_sent, lost, closed_send, framed, nreg, nclose>>
svars == <<pc, status, kernel, handlers, interrupted, locals, history>>
cvars == <<c_pc, c_op, c_sock_open, c_inbox, c_peer_closed, c_sent, c_cancel, t_pc, c_first>>
vars == <<svars, cvars>>

Dead == {"exited", "aborted"}

\* the client when it is not run
ClientOff ==
    /\ c_pc = "off"
    /\ c_op = 0
    /\ c_sock_open = FALSE
    /\ c_inbox = <<>>
    /\ c_peer_closed = FALSE
    /\ c_sent = <<>>
    /\ c_cancel = FALSE
    /\ t_pc = "none"
    /\ c_first = "pending"

\* the server at the start of main
ServerInit ==
    /\ pc = "socket"
    /\ status = "none"
    /\ open = {}
    /\ nonblock = {}
    /\ bound = FALSE
    /\ listening = FALSE
    /\ registry = {}
    /\ rdlist = {}
    /\ bridge = <<>>
    /\ backlog = 0
    /\ conndata = {}
    /\ handlers = {}
    /\ interrupted = FALSE
    /\ stop_server = FALSE
    /\ ret = 0
    /\ errno = "0"
    /\ number = 0
    /\ events = <<>>
    /\ i = 0
    /\ connfd = 0
    /\ signals = <<>>
    /\ bind_failed = FALSE
    /\ wait_failed = FALSE
    /\ term_sent = FALSE
    /\ lost = FALSE
    /\ closed_send = FALSE
    /\ framed = TRUE
    /\ nreg = [fd \in {listenfd, pipefd0} \cup ConnFds |-> 0]
    /\ nclose = [fd \in {listenfd, epollfd, pipefd0, pipefd1} |-> 0]

Init ==
    /\ ServerInit
    /\ ClientOff

(* --------------------------- kernel helpers ---------------------------- *)

\* a read (or accept) on fd would not block
Readable(fd, br, bl, cd) ==
    \/ fd = listenfd /\ bl > 0
    \/ fd = pipefd0 /\ Len(br) > 0
    \/ fd \in cd

\* all orders in which the multiplexer may report a set of descriptors
RECURSIVE Perms(_)
Perms(S) ==
    IF S = {} THEN {<<>>}
    ELSE UNION {{<<x>> \o p : p \in Perms(S \ {x})} : x \in S}

\* assert(cond) failing: abort()
Abort ==
    /\ pc' = "aborted"
    /\ status' = "SIGABRT"

\* epoll_ctl(epollfd, EPOLL_CTL_ADD, fd, &event) succeeds: fd is open and not
\* yet in the interest list (EBADF and EEXIST otherwise)
epoll_ctl_ok(fd) ==
    /\ epollfd \in open
    /\ fd \in open
    /\ fd \notin registry

\* the interest list after EPOLL_CTL_ADD of fd on interest list reg
epoll_ctl_add(reg, fd) ==
    IF fd \in open /\ fd \notin reg THEN reg \cup {fd} ELSE reg

\* errno after addfd: epoll_ctl and fcntl both fail on a bad descriptor
addfd_errno(fd) ==
    IF fd \notin open THEN "EBADF"
    ELSE IF fd \in registry \/ epollfd \notin open THEN "EEXIST"
    ELSE errno

\* mutant: the new flags are computed and never set
setnonblocking_noop(fd) == UNCHANGED nonblock

\* setnonblocking(fd): fcntl(F_GETFL), fcntl(F_SETFL, old | O_NONBLOCK)
setnonblocking(fd) ==
    nonblock' = IF fd \in open THEN nonblock \cup {fd} ELSE nonblock

\* mutant: addfd makes the descriptor nonblocking and forgets epoll_ctl
addfd_unregistered(fd) ==
    /\ setnonblocking(fd)
    /\ UNCHANGED <<registry, rdlist, nreg, errno>>

\* addfd(epollfd, fd): register fd for EPOLLIN|EPOLLET, then make it
\* nonblocking; a descriptor already readable when added is put on the
\* ready list
addfd(fd) ==
    /\ registry' = IF epollfd \in open THEN epoll_ctl_add(registry, fd) ELSE registry
    /\ rdlist' = IF epoll_ctl_ok(fd) /\ Readable(fd, bridge, backlog, conndata)
                 THEN rdlist \cup {fd} ELSE rdlist
    /\ nreg' = IF epoll_ctl_ok(fd) THEN [nreg EXCEPT ![fd] = @ + 1] ELSE nreg
    /\ errno' = addfd_errno(fd)
    /\ setnonblocking(fd)

(* ------------------------------ setup ---------------------------------- *)

\* listenfd = socket(PF_INET, SOCK_STREAM, 0); assert(listenfd >= 0)
Socket ==
    /\ pc = "socket"
    /\ \/ /\ open' = open \cup {listenfd}
          /\ pc' = "bind"
          /\ UNCHANGED <<status, errno>>
       \/ /\ Abort
          /\ errno' = "EMFILE"
          /\ UNCHANGED open
    /\ UNCHANGED <<nonblock, bound, listening, registry, rdlist, bridge, backlog, conndata>>
    /\ UNCHANGED <<handlers, interrupted, stop_server, ret, number, events, i, connfd, signals>>
    /\ UNCHANGED history
    /\ UNCHANGED cvars

\* ret = bind(...); if(ret == -1) printf("errno is %d\n", errno);
Bind ==
    /\ pc = "bind"
    /\ \/ /\ bound' = TRUE
          /\ ret' = 0
          /\ UNCHANGED <<errno, bind_failed>>
       \/ /\ ret' = -1
          /\ errno' = "EADDRINUSE"
          /\ bind_failed' = TRUE
          /\ UNCHANGED bound
    /\ pc' = "listen"
    /\ UNCHANGED <<status, open, nonblock, listening, registry, rdlist, bridge, backlog, conndata>>
    /\ UNCHANGED <<handlers, interrupted, stop_server, number, events, i, connfd, signals>>
    /\ UNCHANGED <<wait_failed, term_sent, lost, closed_send, framed, nreg, nclose>>
    /\ UNCHANGED cvars

\* ret = listen(listenfd, 5); assert(ret != -1).  listen on a socket that
\* has no address binds it to an ephemeral port and succeeds
Listen ==
    /\ pc = "listen"
    /\ \/ /\ listening' = TRUE
          /\ ret' = 0
          /\ pc' = "epoll_create"
          /\ UNCHANGED <<status, errno>>
       \/ /\ ret' = -1
          /\ errno' = "EADDRINUSE"
          /\ Abort
          /\ UNCHANGED listening
    /\ UNCHANGED <<open, nonblock, bound, registry, rdlist, bridge, backlog, conndata>>
    /\ UNCHANGED <<handlers, interrupted, stop_server, number, events, i, connfd, signals>>
    /\ UNCHANGED history
    /\ UNCHANGED cvars

\* int epollfd = epoll_create(5); assert(epollfd != -1)
EpollCreate ==
    /\ pc = "epoll_create"
    /\ \/ /\ open' = open \cup {epollfd}
          /\ pc' = "addfd_listen"
          /\ UNCHANGED <<status, errno>>
       \/ /\ Abort
          /\ errno' = "EMFILE"
          /\ UNCHANGED open
    /\ UNCHANGED <<nonblock, bound, listening, registry, rdlist, bridge, backlog, conndata>>
    /\ UNCHANGED <<handlers, interrupted, stop_server, ret, number, events, i, connfd, signals>>
    /\ UNCHANGED history
    /\ UNCHANGED cvars

\* addfd(epollfd, listenfd)
AddfdListen ==
    /\ pc = "addfd_listen"
    /\ addfd(listenfd)
    /\ pc' = "socketpair"
    /\ UNCHANGED <<status, open, bound, listening, bridge, backlog, conndata>>
    /\ UNCHANGED <<handlers, interrupted, stop_server, ret, number, events, i, connfd, signals>>
    /\ UNCHANGED <<bind_failed, wait_failed, term_sent, lost, closed_send, framed, nclose>>
    /\ UNCHANGED cvars

\* ret = socketpair(PF_UNIX, SOCK_STREAM, 0, pipefd); assert(ret != -1)
Socketpair ==
    /\ pc = "socketpair"
    /\ \/ /\ open' = open \cup {pipefd0, pipefd1}
          /\ ret' = 0
          /\ pc' = "setnonblocking"
          /\ UNCHANGED <<status, errno>>
       \/ /\ ret' = -1
          /\ errno' = "EMFILE"
          /\ Abort
          /\ UNCHANGED open
    /\ UNCHANGED <<nonblock, bound, listening, registry, rdlist, bridge, backlog, conndata>>
    /\ UNCHANGED <<handlers, interrupted, stop_server, number, events, i, connfd, signals>>
    /\ UNCHANGED history
    /\ UNCHANGED cvars

\* mutant: main goes on without making pipefd[1] nonblocking
SetnonblockingPipe_skipped ==
    /\ pc = "setnonblocking"
    /\ pc' = "addfd_pipe"
    /\ UNCHANGED <<status, kernel, handlers, interrupted, locals, history>>
    /\ UNCHANGED cvars

\* setnonblocking(pipefd[1])
SetnonblockingPipe ==
    /\ pc = "setnonblocking"
    /\ setnonblocking(pipefd1)
    /\ pc' = "addfd_pipe"
    /\ UNCHANGED <<status, open, bound, listening, registry, rdlist, bridge, backlog, conndata>>
    /\ UNCHANGED <<handlers, interrupted, locals, history>>
    /\ UNCHANGED cvars

\* addfd(epollfd, pipefd[0])
AddfdPipe ==
    /\ pc = "addfd_pipe"
    /\ addfd(pipefd0)
    /\ pc' = "addsig"
    /\ UNCHANGED <<status, open, bound, listening, bridge, backlog, conndata>>
    /\ UNCHANGED <<handlers, interrupted, stop_server, ret, number, events, i, connfd, signals>>
    /\ UNCHANGED <<bind_failed, wait_failed, term_sent, lost, closed_send, framed, nclose>>
    /\ UNCHANGED cvars

\* addsig(SIGHUP); addsig(SIGCHLD); addsig(SIGTERM); addsig(SIGINT);
\* bool stop_server = false;
addsig ==
    /\ pc = "addsig"
    /\ handlers' = handlers \cup {SigOrder[Cardinality(handlers) + 1]}
    /\ pc' = IF Cardinality(handlers) + 1 = Len(SigOrder) THEN "while" ELSE "addsig"
    /\ stop_server' = FALSE
    /\ UNCHANGED <<status, kernel, interrupted, ret, errno, number, events, i, connfd, signals>>
    /\ UNCHANGED history
    /\ UNCHANGED cvars

Setup ==
    \/ Socket
    \/ Bind
    \/ Listen
    \/ EpollCreate
    \/ AddfdListen
    \/ Socketpair
    \/ SetnonblockingPipe
    \/ AddfdPipe
    \/ addsig

(* ---------------------------- event loop ------------------------------- *)

Running == {"while", "epoll_wait", "check", "for", "addfd_conn", "classify"}

Stopped == {"close_listen", "close_pipe1", "close_pipe0", "return", "exited"}

\* mutant: case SIGHUP falls through into the terminating cases
Terminating_fallthrough(b) == b \in {SIGHUP, SIGTERM, SIGINT}

\* case SIGTERM: case SIGINT:
Terminating(b) == b \in {SIGTERM, SIGINT}

\* mutant: the loop never looks at the stop flag
loop_guard_forever == TRUE

\* while( !stop_server )
loop_guard == ~stop_server

\* mutant: every failure of epoll_wait leaves the loop, EINTR included
epoll_failure_any == number < 0

\* (number < 0) && (errno != EINTR)
epoll_failure == number < 0 /\ errno # "EINTR"

\* the descriptors epoll_wait reports: those with an unreported edge that
\* are still readable when the ready list is scanned
Ready == {fd \in rdlist \cap registry : Readable(fd, bridge, backlog, conndata)}

\* top of an iteration: leave the loop or call epoll_wait
While ==
    /\ pc = "while"
    /\ pc' = IF loop_guard THEN "epoll_wait" ELSE "close_listen"
    /\ UNCHANGED <<status, kernel, handlers, interrupted, locals, history>>
    /\ UNCHANGED cvars

\* epoll_wait returns the ready descriptors, in any order
EpollWaitEvents ==
    /\ pc = "epoll_wait"
    /\ ~interrupted
    /\ Ready # {}
    /\ \E ev \in Perms(Ready) :
          /\ events' = ev
          /\ number' = Len(ev)
    /\ rdlist' = {}
    /\ pc' = "check"
    /\ UNCHANGED <<status, open, nonblock, bound, listening, registry, bridge, backlog, conndata>>
    /\ UNCHANGED <<handlers, interrupted, stop_server, ret, errno, i, connfd, signals>>
    /\ UNCHANGED history
    /\ UNCHANGED cvars

\* epoll_wait interrupted by a handler: -1 with errno EINTR (SA_RESTART does
\* not restart epoll_wait)
EpollWaitEINTR ==
    /\ pc = "epoll_wait"
    /\ interrupted
    /\ interrupted' = FALSE
    /\ number' = -1
    /\ errno' = "EINTR"
    /\ pc' = "check"
    /\ UNCHANGED <<status, kernel, handlers, stop_server, ret, events, i, connfd, signals>>
    /\ UNCHANGED history
    /\ UNCHANGED cvars

\* epoll_wait fails for another reason
EpollWaitFail ==
    /\ pc = "epoll_wait"
    /\ ~interrupted
    /\ number' = -1
    /\ errno' = "EBADF"
    /\ wait_failed' = TRUE
    /\ pc' = "check"
    /\ UNCHANGED <<status, kernel, handlers, interrupted, stop_server, ret, events, i, connfd, signals>>
    /\ UNCHANGED <<bind_failed, term_sent, lost, closed_send, framed, nreg, nclose>>
    /\ UNCHANGED cvars

\* if((number < 0) && (errno != EINTR)){ printf("epoll failure\n"); break; }
\* for(int i = 0; ...
Check ==
    /\ pc = "check"
    /\ IF epoll_failure
       THEN /\ pc' = "close_listen"
            /\ UNCHANGED i
       ELSE /\ pc' = "for"
            /\ i' = 0
    /\ UNCHANGED <<status, kernel, handlers, interrupted>>
    /\ UNCHANGED <<stop_server, ret, errno, number, events, connfd, signals>>
    /\ UNCHANGED history
    /\ UNCHANGED cvars

\* mutant: the for loop also stops once the stop flag is set
for_guard_stop == i < number /\ ~stop_server

\* i < number
for_guard == i < number

\* i < number fails: the batch is done, back to the top of the loop (number
\* and i go out of scope, and events is overwritten before it is read again)
ForExit ==
    /\ pc = "for"
    /\ ~for_guard
    /\ pc' = "while"
    /\ number' = 0
    /\ events' = <<>>
    /\ i' = 0
    /\ UNCHANGED <<status, kernel, handlers, interrupted>>
    /\ UNCHANGED <<stop_server, ret, errno, connfd, signals>>
    /\ UNCHANGED history
    /\ UNCHANGED cvars

\* the descriptor accept returns: the lowest unused one
NextFd == pipefd1 + 1 + Cardinality(open \cap ConnFds)

\* sockfd == listenfd: connfd = accept(listenfd, ...); it blocks when the
\* queue is empty and listenfd is a blocking socket
Accept ==
    /\ pc = "for"
    /\ for_guard
    /\ events[i + 1] = listenfd
    /\ backlog > 0 \/ listenfd \in nonblock
    /\ IF backlog > 0
       THEN /\ connfd' = NextFd
            /\ open' = open \cup {NextFd}
            /\ backlog' = backlog - 1
            /\ UNCHANGED errno
       ELSE /\ connfd' = -1
            /\ errno' = "EAGAIN"
            /\ UNCHANGED <<open, backlog>>
    /\ pc' = "addfd_conn"
    /\ UNCHANGED <<status, nonblock, bound, listening, registry, rdlist, bridge, conndata>>
    /\ UNCHANGED <<handlers, interrupted, stop_server, ret, number, events, i, signals>>
    /\ UNCHANGED history
    /\ UNCHANGED cvars

\* mutant: the listenfd branch ends in a break, dropping the rest of the batch
next_event_break == number

\* mutant: a failed accept is tried again instead of skipped
next_event_retry == IF connfd = -1 THEN i ELSE i + 1

\* i++ after the listenfd branch: the next descriptor of the batch, accept
\* failed or not
next_event == i + 1

\* addfd(epollfd, connfd), whatever accept returned
AddfdConn ==
    /\ pc = "addfd_conn"
    /\ addfd(connfd)
    /\ connfd' = 0
    /\ i' = next_event
    /\ pc' = "for"
    /\ UNCHANGED <<status, open, bound, listening, bridge, backlog, conndata>>
    /\ UNCHANGED <<handlers, interrupted, stop_server, ret, number, events, signals>>
    /\ UNCHANGED <<bind_failed, wait_failed, term_sent, lost, closed_send, framed, nclose>>
    /\ UNCHANGED cvars

\* mutant: a failed recv leaves the for loop (break), skipping the rest of
\* the batch
continue_break == number

\* continue: on to the next descriptor of the batch
continue_event == i + 1

\* what recv(pipefd[0], signals, sizeof(signals), 0) returns without error
recv_len == Min(Len(bridge), SignalsLen)

\* sockfd == pipefd[0]: ret = recv(...); if(ret == -1) continue;
\* recv fails with EAGAIN on an empty nonblocking socket (on a blocking one
\* it does not return) or, whatever is queued, with a hard error
\* (ret is dead once the branch on it is taken: main assigns it before every
\* read, so the model clears it where the block ends)
Recv ==
    /\ pc = "for"
    /\ for_guard
    /\ events[i + 1] = pipefd0
    /\ \/ /\ Len(bridge) > 0
          /\ ret' = recv_len
          /\ signals' = SubSeq(bridge, 1, recv_len)
          /\ bridge' = SubSeq(bridge, recv_len + 1, Len(bridge))
          /\ pc' = "classify"
          /\ UNCHANGED <<errno, i>>
       \/ /\ Len(bridge) > 0 \/ pipefd0 \in nonblock
          /\ ret' = 0
          /\ errno' = IF Len(bridge) = 0 THEN "EAGAIN" ELSE "ENOMEM"
          /\ i' = continue_event
          /\ pc' = "for"
          /\ UNCHANGED <<signals, bridge>>
    /\ UNCHANGED <<status, open, nonblock, bound, listening, registry, rdlist, backlog, conndata>>
    /\ UNCHANGED <<handlers, interrupted, stop_server, number, events, connfd>>
    /\ UNCHANGED history
    /\ UNCHANGED cvars

\* the stop flag after the switch has run over signals[0..ret)
classify(stop, sigs, n) ==
    stop \/ \E k \in 1..n : Terminating(sigs[k])

\* for(int i = 0; i < ret; ++i) switch(signals[i]) ...
Classify ==
    /\ pc = "classify"
    /\ stop_server' = classify(stop_server, signals, ret)
    /\ signals' = <<>>
    /\ ret' = 0
    /\ i' = i + 1
    /\ pc' = "for"
    /\ UNCHANGED <<status, kernel, handlers, interrupted>>
    /\ UNCHANGED <<errno, number, events, connfd>>
    /\ UNCHANGED history
    /\ UNCHANGED cvars

\* else{}: an accepted connection is ready
Other ==
    /\ pc = "for"
    /\ for_guard
    /\ events[i + 1] \notin {listenfd, pipefd0}
    /\ i' = i + 1
    /\ UNCHANGED <<pc, status, kernel, handlers, interrupted>>
    /\ UNCHANGED <<stop_server, ret, errno, number, events, connfd, signals>>
    /\ UNCHANGED history
    /\ UNCHANGED cvars

Loop ==
    \/ While
    \/ EpollWaitEvents
    \/ EpollWaitEINTR
    \/ EpollWaitFail
    \/ Check
    \/ ForExit
    \/ Accept
    \/ AddfdConn
    \/ Recv
    \/ Classify
    \/ Other

(* ----------------------------- teardown -------------------------------- *)

\* close(fd): the descriptor leaves the table and the interest list
close(fd) ==
    /\ open' = open \ {fd}
    /\ registry' = registry \ {fd}
    /\ rdlist' = rdlist \ {fd}
    /\ nclose' = [nclose EXCEPT ![fd] = @ + 1]

\* printf("close fds\n"); close(listenfd);
CloseListen ==
    /\ pc = "close_listen"
    /\ close(listenfd)
    /\ listening' = FALSE
    /\ backlog' = 0
    /\ pc' = "close_pipe1"
    /\ UNCHANGED <<status, nonblock, bound, bridge, conndata>>
    /\ UNCHANGED <<handlers, interrupted, locals>>
    /\ UNCHANGED <<bind_failed, wait_failed, term_sent, lost, closed_send, framed, nreg>>
    /\ UNCHANGED cvars

\* close(pipefd[1]);
ClosePipe1 ==
    /\ pc = "close_pipe1"
    /\ close(pipefd1)
    /\ pc' = "close_pipe0"
    /\ UNCHANGED <<status, nonblock, bound, listening, bridge, backlog, conndata>>
    /\ UNCHANGED <<handlers, interrupted, locals>>
    /\ UNCHANGED <<bind_failed, wait_failed, term_sent, lost, closed_send, framed, nreg>>
    /\ UNCHANGED cvars

\* close(pipefd[0]);
ClosePipe0 ==
    /\ pc = "close_pipe0"
    /\ close(pipefd0)
    /\ bridge' = <<>>
    /\ pc' = "return"
    /\ UNCHANGED <<status, nonblock, bound, listening, backlog, conndata>>
    /\ UNCHANGED <<handlers, interrupted, locals>>
    /\ UNCHANGED <<bind_failed, wait_failed, term_sent, lost, closed_send, framed, nreg>>
    /\ UNCHANGED cvars

\* the status main returns after the loop
return_status == "EXIT_SUCCESS"

\* return 0;
Return ==
    /\ pc = "return"
    /\ pc' = "exited"
    /\ status' = return_status
    /\ UNCHANGED <<kernel, handlers, interrupted, locals, history>>
    /\ UNCHANGED cvars

Teardown ==
    \/ CloseListen
    \/ ClosePipe1
    \/ ClosePipe0
    \/ Return

(* --------------------------- signal handler ---------------------------- *)

\* send(pipefd[1], (char*)&msg, 1, 0) queues the byte
send_ok == pipefd1 \in open /\ Len(bridge) < BridgeCap

\* errno as send leaves it
send_errno ==
    IF pipefd1 \notin open THEN "EBADF"
    ELSE IF Len(bridge) >= BridgeCap THEN "EAGAIN"
    ELSE errno

\* mutant: the handler returns without restoring errno
restore_errno_missing == send_errno

\* errno = save_errno, where save_errno was errno on entry
restore_errno == errno

\* what a handler run may change: at most one byte more in the bridge (and
\* the readiness edge that byte makes), nothing of main's state
HandlerFrame(sig) ==
    /\ bridge' \in {bridge, Append(bridge, LowByte(sig))}
    /\ stop_server' = stop_server
    /\ registry' = registry
    /\ errno' = errno
    /\ open' = open

\* sig_handler(sig), run by the kernel between two steps of main (sa_mask is
\* full, so handlers do not nest).  A send on a full blocking socket does
\* not return.
sig_handler(sig) ==
    /\ sig \in handlers
    /\ pc \notin Dead
    /\ ~(pipefd1 \in open /\ Len(bridge) >= BridgeCap /\ pipefd1 \notin nonblock)
    /\ bridge' = IF send_ok THEN Append(bridge, LowByte(sig)) ELSE bridge
    /\ rdlist' = IF send_ok /\ pipefd0 \in registry THEN rdlist \cup {pipefd0} ELSE rdlist
    /\ errno' = restore_errno
    /\ interrupted' = (interrupted \/ pc = "epoll_wait")
    /\ term_sent' = (term_sent \/ (send_ok /\ Terminating(sig)))
    /\ lost' = (lost \/ (~send_ok /\ Terminating(sig) /\ pc \in Running /\ ~stop_server))
    /\ UNCHANGED <<pc, status, open, nonblock, bound, listening, registry, backlog, conndata>>
    /\ UNCHANGED <<handlers, stop_server, ret, number, events, i, connfd, signals>>
    /\ UNCHANGED <<bind_failed, wait_failed, nreg, nclose>>
    /\ closed_send' = (closed_send \/ pipefd1 \notin open)
    /\ framed' = (framed /\ HandlerFrame(sig))
    /\ UNCHANGED cvars

Signal == \E sig \in Signals : sig_handler(sig)

(* ----------------------------- environment ----------------------------- *)

\* a client's connect() completes: one more connection in the accept queue
Connect ==
    /\ pc \notin Dead
    /\ listening
    /\ listenfd \in open
    /\ backlog + Cardinality(open \cap ConnFds) < MaxConn
    /\ backlog' = backlog + 1
    /\ rdlist' = IF listenfd \in registry THEN rdlist \cup {listenfd} ELSE rdlist
    /\ UNCHANGED <<pc, status, open, nonblock, bound, listening, registry, bridge, conndata>>
    /\ UNCHANGED <<handlers, interrupted, locals, history>>
    /\ UNCHANGED cvars

\* a queued connection goes away before it is accepted
ClientAbort ==
    /\ pc \notin Dead
    /\ backlog > 0
    /\ backlog' = backlog - 1
    /\ UNCHANGED <<pc, status, open, nonblock, bound, listening, registry, rdlist, bridge, conndata>>
    /\ UNCHANGED <<handlers, interrupted, locals, history>>
    /\ UNCHANGED cvars

\* the peer of an accepted connection sends data
ConnData ==
    /\ pc \notin Dead
    /\ \E c \in (open \cap ConnFds) \ conndata :
          /\ conndata' = conndata \cup {c}
          /\ rdlist' = IF c \in registry THEN rdlist \cup {c} ELSE rdlist
    /\ UNCHANGED <<pc, status, open, nonblock, bound, listening, registry, bridge, backlog>>
    /\ UNCHANGED <<handlers, interrupted, locals, history>>
    /\ UNCHANGED cvars

Env ==
    \/ Connect
    \/ ClientAbort
    \/ ConnData

Next ==
    \/ Setup
    \/ Loop
    \/ Teardown
    \/ Signal
    \/ Env

Spec == Init /\ [][Next]_vars

(* ------------------------------ claims --------------------------------- *)

Range(seq) == {seq[k] : k \in 1..Len(seq)}

HasTerminating(seq) == \E k \in 1..Len(seq) : Terminating(seq[k])

\* C1: once the drain step has set the stop flag, the flag stays set, main is
\* never again in (or returning from) epoll_wait, the next top-of-iteration
\* check goes to teardown, and teardown is never left.
C1_StopIsTerminal ==
    /\ [][stop_server => stop_server']_vars
    /\ [](stop_server => pc \notin {"epoll_wait", "check"})
    /\ [][(stop_server /\ pc = "while" /\ pc' # pc) => pc' = "close_listen"]_vars
    /\ [][(pc \in Stopped) => (pc' \in Stopped)]_vars

C1_Witness ==
    /\ pc = "exited"
    /\ stop_server
    /\ ~wait_failed

\* C2: no notification of a terminating signal is lost: a SIGTERM/SIGINT
\* whose handler ran while the loop was running has been seen by the loop
\* (stop flag set) or its byte is still on its way (in the bridge or in the
\* buffer recv filled).
C2_NoSignalLost ==
    lost => (stop_server \/ HasTerminating(bridge) \/ HasTerminating(signals))

C4_AcceptFailureIgnored ==
    /\ [][(pc = "for" /\ pc' = "addfd_conn" /\ connfd' = -1) =>
            (registry' = registry /\ open' = open /\ stop_server' = stop_server)]_vars
    /\ [][(pc = "addfd_conn" /\ connfd = -1 /\ pc' # pc) =>
            /\ pc' = "for"
            /\ i' = i + 1
            /\ number' = number
            /\ events' = events
            /\ registry' = registry
            /\ open' = open
            /\ stop_server' = stop_server]_vars

\* after a failed accept, the descriptor reported after listenfd is handled
C4_Witness ==
    /\ pc = "classify"
    /\ i = 1
    /\ events = <<listenfd, pipefd0>>
    /\ errno = "EBADF"
    /\ open \cap ConnFds = {}

\* C5: a failure of bind or listen aborts startup: in no run in which bind
\* failed is a handler installed or the loop entered.  (A failed listen
\* aborts; only the bind half can fail.)
C5_SetupFailureAborts ==
    bind_failed => (handlers = {} /\ pc \notin Running)

\* C6: epoll_wait failing with EINTR is "no events, retry": nothing is
\* dispatched, stop flag and registry are unchanged, and main goes round to a
\* fresh epoll_wait; the loop is left from the check after epoll_wait only
\* on a failure other than EINTR.
C6_InterruptedWaitRetries ==
    /\ [][(pc = "check" /\ number < 0 /\ errno = "EINTR" /\ pc' # pc) =>
            (pc' = "for" /\ stop_server' = stop_server /\ registry' = registry)]_vars
    /\ [][(pc = "for" /\ number < 0 /\ pc' # pc) =>
            (pc' = "while" /\ ~stop_server' /\ registry' = registry /\ open' = open)]_vars
    /\ [][(pc = "while" /\ ~stop_server /\ pc' # pc) => pc' = "epoll_wait"]_vars
    /\ [][(pc = "check" /\ pc' \notin Running) => (number < 0 /\ errno # "EINTR")]_vars

\* back in epoll_wait after an interrupted one
C6_Witness ==
    /\ pc = "epoll_wait"
    /\ errno = "EINTR"
    /\ ~interrupted
    /\ ~stop_server

\* C7: when the loop was left because epoll_wait failed hard, the process
\* exits with a non-zero status.
C7_WaitFailureExitsNonZero ==
    (pc = "exited" /\ wait_failed) => status # "EXIT_SUCCESS"

\* C8: on normal shutdown no descriptor the server created is open when main
\* returns, and listenfd, pipefd[1], pipefd[0] were each closed once.
C8_AllOwnedClosed ==
    (pc = "exited" /\ stop_server) =>
        /\ open \cap {listenfd, epollfd, pipefd0, pipefd1} = {}
        /\ \A fd \in {listenfd, pipefd0, pipefd1} : nclose[fd] = 1

\* C9: every run of the handler, wherever it interrupted main, left the stop
\* flag, the registry, the descriptor table and errno as they were and
\* added at most its one byte to the bridge.
C9_HandlerFrame == framed

\* a handler whose send failed (errno was EAGAIN inside it) has run while
\* main was in the loop
C9_Witness ==
    /\ lost
    /\ framed
    /\ pc \in Running

ForStep == pc = "for" /\ (pc' # pc \/ i' # i)

BatchPcs == {"for", "addfd_conn", "classify"}

\* C11: neither kind of event starves the other.  A reported bridge is read
\* (or its recv fails) whatever the accept queue holds, a reported listening
\* socket with a queued connection is accepted whatever the bridge holds,
\* and a batch is left only after every reported descriptor had its turn:
\* the index moves one descriptor at a time up to number.
C11_NoMutualStarvation ==
    /\ [][(ForStep /\ i < number /\ events[i + 1] = pipefd0 /\ bridge # <<>>) =>
            \/ /\ pc' = "classify"
               /\ signals' # <<>>
               /\ signals' \o bridge' = bridge
            \/ /\ pc' = "for"
               /\ errno' = "ENOMEM"]_vars
    /\ [][(pc = "classify" /\ pc' # pc) =>
            (stop_server' = (stop_server \/ HasTerminating(signals)))]_vars
    /\ [][(ForStep /\ i < number /\ events[i + 1] = listenfd /\ backlog > 0) =>
            /\ pc' = "addfd_conn"
            /\ connfd' \in ConnFds
            /\ backlog' = backlog - 1]_vars
    /\ [][(pc \in BatchPcs /\ pc' \in BatchPcs) =>
            (i' \in {i, i + 1} /\ events' = events /\ number' = number)]_vars
    /\ [][(pc \in BatchPcs /\ pc' \notin BatchPcs) =>
            (pc = "for" /\ ~(i < number) /\ pc' = "while")]_vars

\* a batch that reported both descriptors is done: the bridge is drained and
\* the connection accepted and registered
C11_Witness ==
    /\ pc = "for"
    /\ number = 2
    /\ i = 2
    /\ Range(events) = {listenfd, pipefd0}
    /\ registry \cap ConnFds # {}
    /\ bridge = <<>>
    /\ errno # "ENOMEM"

\* C12: the drain step reads every byte that is in the bridge when it runs:
\* after the recv of a readiness notification the bridge is empty.
C12_DrainReadsAll ==
    [][(pc = "for" /\ pc' = "classify") => bridge' = <<>>]_vars

Count(seq, x) == Cardinality({k \in 1..Len(seq) : seq[k] = x})

\* C13: accept is called once for a reported listenfd (only on its turn, and
\* the loop then moves on); an accepted connection is nonblocking and in the
\* interest list from the addfd that follows its accept; main never closes,
\* deregisters or reads it, and the turn of a ready connection changes
\* nothing but the loop index.
C13_AcceptOnceRegisterOnly ==
    /\ [](Count(events, listenfd) <= 1)
    /\ [](pc = "addfd_conn" => (i < number /\ events[i + 1] = listenfd))
    /\ [][(pc = "addfd_conn" /\ pc' # pc) => (pc' = "for" /\ i' = i + 1)]_vars
    /\ [](\A c \in open \cap ConnFds :
            \/ c \in registry /\ c \in nonblock /\ nreg[c] = 1
            \/ pc = "addfd_conn" /\ connfd = c)
    /\ [][/\ open \cap ConnFds \subseteq open'
          /\ registry \cap ConnFds \subseteq registry'
          /\ conndata \subseteq conndata']_vars
    /\ [][(ForStep /\ i < number /\ events[i + 1] \in ConnFds) =>
            /\ pc' = "for"
            /\ i' = i + 1
            /\ UNCHANGED <<status, kernel, handlers, interrupted>>
            /\ UNCHANGED <<stop_server, ret, errno, number, events, connfd, signals>>]_vars

\* a ready accepted connection has had its turn
C13_Witness ==
    /\ pc = "for"
    /\ i >= 1
    /\ events[i] \in ConnFds
    /\ events[i] \in registry \cap nonblock \cap conndata

\* the descriptors of the current batch whose turn is over
Dispatched == SubSeq(events, 1, Min(i, Len(events)))

\* C14: a batch is walked in the order epoll_wait reported it, one
\* descriptor per turn, each once; the stop flag is not looked at inside the
\* batch: with the flag set the remaining descriptors still get their turn,
\* a queued connection is still accepted and registered, and the loop is
\* left only from the top of the next iteration.
C14_BatchOrderAndStopCheck ==
    /\ [][(pc \in BatchPcs /\ pc' \in BatchPcs) =>
            /\ events' = events
            /\ number' = number
            /\ \/ i' = i
               \/ i' = i + 1 /\ i < number /\ Dispatched' = Append(Dispatched, events[i + 1])]_vars
    /\ [](pc \in BatchPcs /\ number >= 0 =>
            /\ number = Len(events)
            /\ i <= number
            /\ \A fd \in Range(events) : Count(events, fd) = 1)
    /\ [][(pc \in BatchPcs /\ pc' \notin BatchPcs) =>
            (pc' = "while" /\ (number < 0 \/ Dispatched = events))]_vars
    /\ [][(stop_server /\ ForStep /\ i < number) => pc' \in BatchPcs]_vars
    /\ [][(stop_server /\ ForStep /\ i < number /\ events[i + 1] = listenfd /\ backlog > 0) =>
            (pc' = "addfd_conn" /\ connfd' \in ConnFds)]_vars
    /\ [][(stop_server /\ pc = "addfd_conn" /\ connfd \in ConnFds /\ pc' # pc) =>
            connfd \in registry']_vars
    /\ [][(pc \in Running /\ pc' \in Stopped /\ stop_server) => pc = "while"]_vars

\* the drain of this batch set the stop flag, and the listening socket
\* reported after the bridge was still accepted and registered
C14_Witness ==
    /\ pc = "for"
    /\ stop_server
    /\ events = <<pipefd0, listenfd>>
    /\ i = 2
    /\ registry \cap ConnFds # {}

\* C15: the handler never blocks and sends once: whenever a handler is
\* installed and pipefd[1] is open it is nonblocking, so a handler run is
\* possible in every state of the live process, a full bridge included, and
\* it adds at most one byte; and main can always take its next step unless
\* it is inside epoll_wait.
C15_OnlyWaitSuspends ==
    /\ (handlers # {} /\ pipefd1 \in open) => pipefd1 \in nonblock
    /\ \A sig \in handlers : pc \notin Dead => ENABLED sig_handler(sig)
    /\ framed
    /\ (pc \notin Dead \cup {"epoll_wait"}) => ENABLED (Setup \/ Loop \/ Teardown)

\* a handler has met the full bridge, lost its byte and returned, and main
\* is about to call accept on an empty queue
C15_Witness ==
    /\ lost
    /\ Len(bridge) = BridgeCap
    /\ pc = "for"
    /\ i < number
    /\ events[i + 1] = listenfd
    /\ backlog = 0

\* C16: a recv on the bridge that delivers no byte (-1 with EAGAIN or a hard
\* error; 0 bytes classify nothing either) ends the drain pass: no byte is
\* classified, the stop flag and the bridge are as before, and main is at
\* the for head with the next descriptor of the same batch.
C16_FailedRecvEndsPass ==
    /\ [][(ForStep /\ i < number /\ events[i + 1] = pipefd0 /\ pc' # "classify") =>
            /\ pc' = "for"
            /\ i' = i + 1
            /\ events' = events
            /\ number' = number
            /\ stop_server' = stop_server
            /\ bridge' = bridge
            /\ signals' = <<>>]_vars
    /\ [](classify(stop_server, signals, 0) = stop_server)

\* the recv of this batch failed with bytes queued, and the listening socket
\* reported after the bridge is being handled
C16_Witness ==
    /\ pc = "addfd_conn"
    /\ errno = "ENOMEM"
    /\ connfd \in ConnFds
    /\ events = <<pipefd0, listenfd>>
    /\ i = 1
    /\ ~stop_server
    /\ HasTerminating(bridge)

\* C18: every handler run finds pipefd[1] open: handlers exist only once the
\* socketpair does, and no handler run sends on pipefd[1] after teardown
\* closed it.
C18_HandlerWritesOpenEnd ==
    /\ handlers # {} => nclose[pipefd1] > 0 \/ pipefd1 \in open
    /\ ~closed_send

(* ------------------------------ client --------------------------------- *)

\* client.c main after socket() and connect() succeeded.  clientMsgSend is
\* an uninitialized automatic variable: its op holds any value until a
\* recv fills it.
ClientInit ==
    /\ ServerInit
    /\ c_pc = "recv_first"
    /\ c_op \in OpValues
    /\ c_sock_open = TRUE
    /\ c_inbox = <<>>
    /\ c_peer_closed = FALSE
    /\ c_sent = <<>>
    /\ c_cancel = FALSE
    /\ t_pc = "none"
    /\ c_first = "pending"

\* recv(sockfd, &clientMsgSend, sizeof(clientMsgSend), 0); the result is not
\* looked at: on 0 (peer closed) clientMsgSend keeps what it held
RecvFirst ==
    /\ c_pc = "recv_first"
    /\ c_inbox # <<>> \/ c_peer_closed
    /\ IF c_inbox # <<>>
       THEN /\ c_op' = Head(c_inbox)
            /\ c_inbox' = Tail(c_inbox)
            /\ c_first' = IF Head(c_inbox) = OK THEN "OK" ELSE "other"
       ELSE /\ c_first' = "closed"
            /\ UNCHANGED <<c_op, c_inbox>>
    /\ c_pc' = "test_ok"
    /\ UNCHANGED <<c_sock_open, c_peer_closed, c_sent, c_cancel, t_pc>>
    /\ UNCHANGED svars

\* if(clientMsgSend.op == OK) ... else printf("max connection limit\n")
TestOk ==
    /\ c_pc = "test_ok"
    /\ c_pc' = IF c_op = OK THEN "pthread_create" ELSE "close"
    /\ UNCHANGED <<c_op, c_sock_open, c_inbox, c_peer_closed, c_sent, c_cancel, t_pc, c_first>>
    /\ UNCHANGED svars

\* pthread_create(&tid, NULL, func, (void*)arg)
PthreadCreate ==
    /\ c_pc = "pthread_create"
    /\ t_pc' = "recv"
    /\ c_pc' = "send_user"
    /\ UNCHANGED <<c_op, c_sock_open, c_inbox, c_peer_closed, c_sent, c_cancel, c_first>>
    /\ UNCHANGED svars

\* scanf username; clientMsgSend.op = USER; send(...)
SendUser ==
    /\ c_pc = "send_user"
    /\ c_op' = USER
    /\ c_sent' = Append(c_sent, USER)
    /\ c_pc' = "gets"
    /\ UNCHANGED <<c_sock_open, c_inbox, c_peer_closed, c_cancel, t_pc, c_first>>
    /\ UNCHANGED svars

\* clientMsgSend.op = MSG; gets(buf) reads a line other than "bye"; send(...)
SendMsg ==
    /\ c_pc = "gets"
    /\ Len(c_sent) <= MaxLines
    /\ c_op' = MSG
    /\ c_sent' = Append(c_sent, MSG)
    /\ UNCHANGED <<c_pc, c_sock_open, c_inbox, c_peer_closed, c_cancel, t_pc, c_first>>
    /\ UNCHANGED svars

\* gets(buf) reads "bye": clientMsgSend.op = EXIT; send(...); break;
SendExit ==
    /\ c_pc = "gets"
    /\ c_op' = EXIT
    /\ c_sent' = Append(c_sent, EXIT)
    /\ c_pc' = "pthread_cancel"
    /\ UNCHANGED <<c_sock_open, c_inbox, c_peer_closed, c_cancel, t_pc, c_first>>
    /\ UNCHANGED svars

\* pthread_cancel(tid): the request is made, nothing waits for the thread
PthreadCancel ==
    /\ c_pc = "pthread_cancel"
    /\ c_cancel' = TRUE
    /\ c_pc' = "close"
    /\ UNCHANGED <<c_op, c_sock_open, c_inbox, c_peer_closed, c_sent, t_pc, c_first>>
    /\ UNCHANGED svars

\* close(sockfd);
ClientClose ==
    /\ c_pc = "close"
    /\ c_sock_open' = FALSE
    /\ c_pc' = "return"
    /\ UNCHANGED <<c_op, c_inbox, c_peer_closed, c_sent, c_cancel, t_pc, c_first>>
    /\ UNCHANGED svars

\* return 0; the process and its threads end
ClientReturn ==
    /\ c_pc = "return"
    /\ c_pc' = "exited"
    /\ UNCHANGED <<c_op, c_sock_open, c_inbox, c_peer_closed, c_sent, c_cancel, t_pc, c_first>>
    /\ UNCHANGED svars

\* process_cli: len = recv(sockfd, &clientMsg, ...) returns a record.  recv
\* is a cancellation point: with a request pending the thread does not get
\* into it.  (A recv that returns 0 or -1 goes round the loop at once.)
ThreadRecv ==
    /\ t_pc = "recv"
    /\ c_pc # "exited"
    /\ ~c_cancel
    /\ c_sock_open
    /\ c_inbox # <<>>
    /\ c_inbox' = Tail(c_inbox)
    /\ t_pc' = "printf"
    /\ UNCHANGED <<c_pc, c_op, c_sock_open, c_peer_closed, c_sent, c_cancel, c_first>>
    /\ UNCHANGED svars

\* process_cli: the if chain on clientMsg.op and its printf, then bzero and
\* the next recv
ThreadPrintf ==
    /\ t_pc = "printf"
    /\ c_pc # "exited"
    /\ t_pc' = "recv"
    /\ UNCHANGED <<c_pc, c_op, c_sock_open, c_inbox, c_peer_closed, c_sent, c_cancel, c_first>>
    /\ UNCHANGED svars

\* the thread acts on the cancellation request, at a cancellation point
ThreadCancelled ==
    /\ t_pc \in {"recv", "printf"}
    /\ c_pc # "exited"
    /\ c_cancel
    /\ t_pc' = "cancelled"
    /\ UNCHANGED <<c_pc, c_op, c_sock_open, c_inbox, c_peer_closed, c_sent, c_cancel, c_first>>
    /\ UNCHANGED svars

\* the peer sends a record
PeerSend ==
    /\ c_pc # "exited"
    /\ ~c_peer_closed
    /\ Len(c_inbox) < MaxRecords
    /\ \E op \in OpValues : c_inbox' = Append(c_inbox, op)
    /\ UNCHANGED <<c_pc, c_op, c_sock_open, c_peer_closed, c_sent, c_cancel, t_pc, c_first>>
    /\ UNCHANGED svars

\* the peer closes the connection
PeerClose ==
    /\ c_pc # "exited"
    /\ ~c_peer_closed
    /\ c_peer_closed' = TRUE
    /\ UNCHANGED <<c_pc, c_op, c_sock_open, c_inbox, c_sent, c_cancel, t_pc, c_first>>
    /\ UNCHANGED svars

ClientNext ==
    \/ RecvFirst
    \/ TestOk
    \/ PthreadCreate
    \/ SendUser
    \/ SendMsg
    \/ SendExit
    \/ PthreadCancel
    \/ ClientClose
    \/ ClientReturn
    \/ ThreadRecv
    \/ ThreadPrintf
    \/ ThreadCancelled
    \/ PeerSend
    \/ PeerClose

ClientSpec == ClientInit /\ [][ClientNext]_vars

\* C17: the client sends a record only when the first record it received
\* had op == OK; otherwise (another op, or the peer closed without sending)
\* it ends with nothing sent and the socket closed.
C17_SendsOnlyAfterOk ==
    /\ c_sent # <<>> => c_first = "OK"
    /\ (c_pc = "exited" /\ c_first # "OK") => (c_sent = <<>> /\ ~c_sock_open)

\* C19: when close(sockfd) has taken effect the receive thread, if it was
\* created, has stopped.
C19_ThreadStoppedBeforeClose ==
    (~c_sock_open /\ c_pc # "exited") => t_pc \in {"none", "cancelled"}

====
